---- MODULE Spec2Model ----
(***************************************************************************)
(* Model of the OTP authentication server (Express app) of                 *)
(* Legal_Redline_Sandbox: src/replit.md lines 69-382.                      *)
(*                                                                         *)
(* Time is counted in ticks of 2.5 minutes: Date.now() is `now`, the 5     *)
(* minute OTP lifetime is OtpTtl ticks, the sweeper period SweepInterval   *)
(* ticks and the (environment-configured) token lifetime JwtExpiresIn      *)
(* ticks.  Strings the code inspects character by character (emails, OTP   *)
(* codes) are sequences of characters or digits.  Session identifiers are  *)
(* 256-bit / UUID random values and are modelled as never repeating.       *)
(***************************************************************************)
EXTENDS Integers, Sequences, FiniteSets, TLC

\* ------------------------------------------------------------------ bounds
MaxNow == 3

\* ------------------------------------------------------- program constants
\* 5 * 60 * 1000 ms, the setInterval period and JWT_EXPIRES_IN (here "5m"), in
\* ticks; the attempt limit; the bounds given to crypto.randomInt
OtpTtl == 2
SweepInterval == 2
JwtExpiresIn == 2
MaxAttempts == 3
OtpLow == 100000
OtpHigh == 999999

\* ------------------------------------------------------------------ inputs
EmailA == <<"a", "@", "x", ".", "c">>
EmailB == <<"b", "@", "x", ".", "c">>
EmailNoDot == <<"a", "@", "x">>
EmailSpace == <<"a", " ", "@", "x", ".", "c">>
EmailMissing == <<>>

EmailInputs == {EmailA, EmailB, EmailNoDot, EmailSpace, EmailMissing}

Passwords == {"", "pw", "other"}

SessionIds == <<"s1", "s2">>

\* the connections a send-otp can be suspended on
Clients == {"c1", "c2"}

\* the integers crypto.randomInt is modelled to draw in this model
CodeDraws == {OtpLow, 123456}

\* process.env after dotenv: JWT_SECRET configured, or never set
Undefined == "undefined"

Configured == [JWT_SECRET |-> "secret"]

EnvInputs == {Configured, [JWT_SECRET |-> Undefined]}

VARIABLES
  env,           \* process.env
  listening,     \* whether app.listen has been reached
  now,           \* Date.now(), in ticks
  otpStore,      \* otpStore: email -> [otp, expiresAt, attempts]
  sessionStore,  \* sessionStore: sessionId -> session record
  issued,        \* every generateToken call made: arguments and token returned
  pending,       \* send-otp requests suspended in await transporter.sendMail
  nextSweep,     \* earliest time of the next setInterval callback
  last,          \* the last request answered and its response
  loggedOut,     \* history: session ids a logout has been answered 200 for
  hist           \* history of the watched email since its last accepted send-otp

vars == <<env, listening, now, otpStore, sessionStore, issued, pending, nextSweep,
          last, loggedOut, hist>>

Secret == env.JWT_SECRET

\* ----------------------------------------------------------------- helpers
Remove(f, k) == [x \in (DOMAIN f) \ {k} |-> f[x]]

Put(f, k, v) == [x \in (DOMAIN f) \cup {k} |-> IF x = k THEN v ELSE f[x]]

\* Number.prototype.toString() of a non-negative integer: its decimal digits
RECURSIVE Digits(_)
Digits(n) == IF n < 10 THEN <<n>> ELSE Append(Digits(n \div 10), n % 10)

\* crypto.randomInt(min, max) can return n: min <= n < max
RandomInt(min, max, n) == min <= n /\ n < max

\* Date.now() and new Date().toISOString()
DateNow == [fmt |-> "ms", t |-> now]

IsoNow == [fmt |-> "iso", t |-> now]

\* /^[^\s@]+@[^\s@]+\.[^\s@]+$/.test(email)
NotSpaceAt(s, i, j) == i <= j /\ \A k \in i..j : s[k] \notin {" ", "@"}

EmailRegexTest(s) ==
  \E i \in 1..Len(s) : \E j \in 1..Len(s) :
    /\ i < j
    /\ s[i] = "@"
    /\ s[j] = "."
    /\ NotSpaceAt(s, 1, i - 1)
    /\ NotSpaceAt(s, i + 1, j - 1)
    /\ NotSpaceAt(s, j + 1, Len(s))

\* ------------------------------------------------------------------ tokens
\* HMAC of a payload under a key: only the holder of the key can produce it
Mac(key, payload) == [key |-> key, over |-> payload]

\* jwt.sign throws "secretOrPrivateKey must have a value" without a secret
ErrNoKey == "secretOrPrivateKey must have a value"

JwtSignThrows(secret) == secret = Undefined

\* jwt.sign(payload, secret, {expiresIn}): the payload plus iat and exp, signed
JwtSign(payload, secret, expiresIn) ==
  LET claims == [k \in (DOMAIN payload) \cup {"iat", "exp"} |->
                   IF k = "iat" THEN now
                   ELSE IF k = "exp" THEN now + expiresIn
                   ELSE payload[k]]
  IN [payload |-> claims, sig |-> Mac(secret, claims)]

\* Faulty variant, for sensitivity of the properties: the expiry is not checked
JwtVerifyNoExp(token, secret) ==
  IF secret = Undefined THEN [err |-> TRUE]
  ELSE IF token.sig # Mac(secret, token.payload) THEN [err |-> TRUE]
  ELSE [err |-> FALSE, user |-> token.payload]

\* jwt.verify(token, secret, cb): err without a secret, on a bad signature or
\* once now >= exp, else the decoded payload
JwtVerify(token, secret) ==
  IF secret = Undefined THEN [err |-> TRUE]
  ELSE IF token.sig # Mac(secret, token.payload) THEN [err |-> TRUE]
  ELSE IF now >= token.payload.exp THEN [err |-> TRUE]
  ELSE [err |-> FALSE, user |-> token.payload]

\* Faulty variant, for sensitivity of the properties: the token is bound to another session id than the one given
generateTokenOther(email, sessionId) ==
  JwtSign([email |-> email, sessionId |-> "s-other"], Secret, JwtExpiresIn)

generateToken(email, sessionId) ==
  JwtSign([email |-> email, sessionId |-> sessionId], Secret, JwtExpiresIn)

\* a generateToken call: its arguments and the token it returned
Minted(email, sessionId) ==
  [email |-> email, sessionId |-> sessionId, token |-> generateToken(email, sessionId)]

\* ---------------------------------------------------------------- replies
\* what a handler does: its response, the stores it leaves and the
\* generateToken calls it made
Out(res, otp, sess, minted) ==
  [res |-> res, otp |-> otp, sess |-> sess, minted |-> minted]

Fail(status, error) ==
  Out([status |-> status, error |-> error], otpStore, sessionStore, {})

\* an exception left the handler: it wrote no response (status 0) and the
\* stores are as the statements before the throw left them
Threw(error, otp) ==
  Out([status |-> 0, error |-> error], otp, sessionStore, {})

\* authHeader && authHeader.split(" ")[1]; a header is its list of words
BearerOf(header) == IF Len(header) >= 2 THEN <<header[2]>> ELSE <<>>

\* authenticateToken: the response it ends the request with, or the user
authenticateToken(header) ==
  LET token == BearerOf(header) IN
  IF token = <<>> THEN [next |-> FALSE, out |-> Fail(401, "Access token required")]
  ELSE LET v == JwtVerify(token[1], Secret) IN
    IF v.err THEN [next |-> FALSE, out |-> Fail(403, "Invalid or expired token")]
    ELSE [next |-> TRUE, user |-> v.user]

\* ---------------------------------------------------------------- handlers
\* Faulty variant, for sensitivity of the properties: registering opens a
\* session under the user id
RegisterOpens(email, password) ==
  IF Len(email) = 0 \/ password = ""
  THEN Fail(400, "Email and password are required")
  ELSE Out([status |-> 200, error |-> "", success |-> TRUE],
           otpStore,
           Put(sessionStore, "userId",
               [email |-> email, createdAt |-> DateNow, lastActive |-> DateNow]),
           {})

\* POST /auth/register
Register(email, password) ==
  IF Len(email) = 0 \/ password = ""
  THEN Fail(400, "Email and password are required")
  ELSE Out([status |-> 200, error |-> "", success |-> TRUE],
           otpStore, sessionStore, {})

\* Faulty variant, for sensitivity of the properties: the password is
\* compared with a stored one
LoginChecked(email, password, sessionId) ==
  IF Len(email) = 0 \/ password = ""
  THEN Fail(400, "Email and password are required")
  ELSE IF password # "pw" THEN Fail(401, "Invalid credentials")
  ELSE IF JwtSignThrows(Secret) THEN Threw(ErrNoKey, otpStore)
  ELSE LET token == generateToken(email, sessionId) IN
    Out([status |-> 200, error |-> "", access_token |-> token,
         expires_in |-> 86400, user |-> [email |-> email, id |-> sessionId]],
        otpStore,
        Put(sessionStore, sessionId,
            [email |-> email, createdAt |-> DateNow, lastActive |-> DateNow]),
        {Minted(email, sessionId)})

\* POST /auth/login; sessionId is the crypto.randomUUID() drawn
Login(email, password, sessionId) ==
  IF Len(email) = 0 \/ password = ""
  THEN Fail(400, "Email and password are required")
  ELSE IF JwtSignThrows(Secret) THEN Threw(ErrNoKey, otpStore)
  ELSE LET token == generateToken(email, sessionId) IN
    Out([status |-> 200, error |-> "", access_token |-> token,
         expires_in |-> 86400, user |-> [email |-> email, id |-> sessionId]],
        otpStore,
        Put(sessionStore, sessionId,
            [email |-> email, createdAt |-> DateNow, lastActive |-> DateNow]),
        {Minted(email, sessionId)})

\* Faulty variant, for sensitivity of the properties: an entry already stored is kept instead of overwritten
StoreOtpKeep(email, n) ==
  IF email \in DOMAIN otpStore THEN otpStore
  ELSE Put(otpStore, email,
           [otp |-> Digits(n), expiresAt |-> now + OtpTtl, attempts |-> 0])

\* otpStore[email] = { otp, expiresAt: Date.now() + 5 * 60 * 1000, attempts: 0 }
StoreOtp(email, n) ==
  Put(otpStore, email,
      [otp |-> Digits(n), expiresAt |-> now + OtpTtl, attempts |-> 0])

\* Faulty variant, for sensitivity of the properties: the code is stored
\* before the email is validated
SendOtpStoreFirst(email, n) ==
  IF Len(email) = 0
  THEN Out([status |-> 400, error |-> "Email is required"],
           StoreOtp(email, n), sessionStore, {})
  ELSE IF ~EmailRegexTest(email)
  THEN Out([status |-> 400, error |-> "Invalid email format"],
           StoreOtp(email, n), sessionStore, {})
  ELSE Out([status |-> 0, error |-> ""], StoreOtp(email, n), sessionStore, {})

\* POST /auth/send-otp up to the await: validation, generation, store.
\* n is the integer crypto.randomInt returned; status 0: no response yet.
SendOtpStore(email, n) ==
  IF Len(email) = 0 THEN Fail(400, "Email is required")
  ELSE IF ~EmailRegexTest(email) THEN Fail(400, "Invalid email format")
  ELSE Out([status |-> 0, error |-> ""], StoreOtp(email, n), sessionStore, {})

\* Faulty variant, for sensitivity of the properties: a failed dispatch
\* empties the OTP store
SendOtpReplyRollback(ok) ==
  IF ok THEN Out([status |-> 200, error |-> "", expiresIn |-> 300],
                 otpStore, sessionStore, {})
  ELSE Out([status |-> 500, error |-> "Failed to send OTP. Please try again."],
           <<>>, sessionStore, {})

\* POST /auth/send-otp after the await: sendMail resolved (ok) or threw
SendOtpReply(ok) ==
  IF ok THEN Out([status |-> 200, error |-> "", expiresIn |-> 300],
                 otpStore, sessionStore, {})
  ELSE Fail(500, "Failed to send OTP. Please try again.")

\* Faulty variant, for sensitivity of the properties: the limit is tested with > instead of >=
AttemptsUsedUpLate(storedOtp) == storedOtp.attempts > MaxAttempts

\* storedOtp.attempts >= 3
AttemptsUsedUp(storedOtp) == storedOtp.attempts >= MaxAttempts

\* Faulty variant, for sensitivity of the properties: a grace tick after expiresAt
OtpExpiredLate(storedOtp) == now > storedOtp.expiresAt + 1

\* Date.now() > storedOtp.expiresAt
OtpExpired(storedOtp) == now > storedOtp.expiresAt

\* Faulty variant, for sensitivity of the properties: the verified entry is not deleted
OtpVerifiedKeep(email, sessionId) ==
  IF JwtSignThrows(Secret) THEN Threw(ErrNoKey, otpStore)
  ELSE LET token == generateToken(email, sessionId) IN
  Out([status |-> 200, error |-> "", token |-> token,
       user |-> [email |-> email], sessionId |-> sessionId],
      otpStore,
      Put(sessionStore, sessionId,
          [email |-> email, createdAt |-> IsoNow, lastActivity |-> IsoNow]),
      {Minted(email, sessionId)})

\* verify-otp once the code matched: delete the entry, create the session,
\* issue the token
OtpVerified(email, sessionId) ==
  IF JwtSignThrows(Secret) THEN Threw(ErrNoKey, Remove(otpStore, email))
  ELSE LET token == generateToken(email, sessionId) IN
  Out([status |-> 200, error |-> "", token |-> token,
       user |-> [email |-> email], sessionId |-> sessionId],
      Remove(otpStore, email),
      Put(sessionStore, sessionId,
          [email |-> email, createdAt |-> IsoNow, lastActivity |-> IsoNow]),
      {Minted(email, sessionId)})

\* Faulty variant, for sensitivity of the properties: the mismatch response
\* tells the stored code
VerifyOtpEcho(email, otp, sessionId) ==
  IF Len(email) = 0 \/ Len(otp) = 0 THEN Fail(400, "Email and OTP are required")
  ELSE IF email \notin DOMAIN otpStore
  THEN Fail(400, "No OTP found. Please request a new one.")
  ELSE LET storedOtp == otpStore[email] IN
    IF AttemptsUsedUp(storedOtp)
    THEN Out([status |-> 429,
              error |-> "Too many failed attempts. Please request a new OTP."],
             Remove(otpStore, email), sessionStore, {})
    ELSE IF OtpExpired(storedOtp)
    THEN Out([status |-> 400,
              error |-> "OTP has expired. Please request a new one."],
             Remove(otpStore, email), sessionStore, {})
    ELSE IF storedOtp.otp # otp
    THEN Out([status |-> 400, error |-> "Invalid OTP.",
              remaining |-> MaxAttempts - (storedOtp.attempts + 1),
              expected |-> storedOtp.otp],
             [otpStore EXCEPT ![email].attempts = @ + 1], sessionStore, {})
    ELSE OtpVerified(email, sessionId)

\* Faulty variant, for sensitivity of the properties: the expiry is tested
\* before the attempt limit
VerifyOtpExpiryFirst(email, otp, sessionId) ==
  IF Len(email) = 0 \/ Len(otp) = 0 THEN Fail(400, "Email and OTP are required")
  ELSE IF email \notin DOMAIN otpStore
  THEN Fail(400, "No OTP found. Please request a new one.")
  ELSE LET storedOtp == otpStore[email] IN
    IF OtpExpired(storedOtp)
    THEN Out([status |-> 400,
              error |-> "OTP has expired. Please request a new one."],
             Remove(otpStore, email), sessionStore, {})
    ELSE IF AttemptsUsedUp(storedOtp)
    THEN Out([status |-> 429,
              error |-> "Too many failed attempts. Please request a new OTP."],
             Remove(otpStore, email), sessionStore, {})
    ELSE IF storedOtp.otp # otp
    THEN Out([status |-> 400, error |-> "Invalid OTP.",
              remaining |-> MaxAttempts - (storedOtp.attempts + 1)],
             [otpStore EXCEPT ![email].attempts = @ + 1], sessionStore, {})
    ELSE OtpVerified(email, sessionId)

\* Faulty variant, for sensitivity of the properties: the remaining attempts
\* are told from the count before the increment
VerifyOtpStale(email, otp, sessionId) ==
  IF Len(email) = 0 \/ Len(otp) = 0 THEN Fail(400, "Email and OTP are required")
  ELSE IF email \notin DOMAIN otpStore
  THEN Fail(400, "No OTP found. Please request a new one.")
  ELSE LET storedOtp == otpStore[email] IN
    IF AttemptsUsedUp(storedOtp)
    THEN Out([status |-> 429,
              error |-> "Too many failed attempts. Please request a new OTP."],
             Remove(otpStore, email), sessionStore, {})
    ELSE IF OtpExpired(storedOtp)
    THEN Out([status |-> 400,
              error |-> "OTP has expired. Please request a new one."],
             Remove(otpStore, email), sessionStore, {})
    ELSE IF storedOtp.otp # otp
    THEN Out([status |-> 400, error |-> "Invalid OTP.",
              remaining |-> MaxAttempts - storedOtp.attempts],
             [otpStore EXCEPT ![email].attempts = @ + 1], sessionStore, {})
    ELSE OtpVerified(email, sessionId)

\* POST /auth/verify-otp; sessionId is the crypto.randomBytes(32) drawn
VerifyOtp(email, otp, sessionId) ==
  IF Len(email) = 0 \/ Len(otp) = 0 THEN Fail(400, "Email and OTP are required")
  ELSE IF email \notin DOMAIN otpStore
  THEN Fail(400, "No OTP found. Please request a new one.")
  ELSE LET storedOtp == otpStore[email] IN
    IF AttemptsUsedUp(storedOtp)
    THEN Out([status |-> 429,
              error |-> "Too many failed attempts. Please request a new OTP."],
             Remove(otpStore, email), sessionStore, {})
    ELSE IF OtpExpired(storedOtp)
    THEN Out([status |-> 400,
              error |-> "OTP has expired. Please request a new one."],
             Remove(otpStore, email), sessionStore, {})
    ELSE IF storedOtp.otp # otp
    THEN Out([status |-> 400, error |-> "Invalid OTP.",
              remaining |-> MaxAttempts - (storedOtp.attempts + 1)],
             [otpStore EXCEPT ![email].attempts = @ + 1], sessionStore, {})
    ELSE OtpVerified(email, sessionId)

\* session.lastActivity = new Date().toISOString()
Touch(session) ==
  [k \in (DOMAIN session) \cup {"lastActivity"} |->
     IF k = "lastActivity" THEN IsoNow ELSE session[k]]

\* Faulty variant, for sensitivity of the properties: the session store is not consulted
VerifyTokenNoStore(header) ==
  LET a == authenticateToken(header) IN
  IF ~a.next THEN a.out
  ELSE Out([status |-> 200, error |-> "", valid |-> TRUE,
            user |-> [email |-> a.user.email], sessionId |-> a.user.sessionId],
           otpStore, sessionStore, {})

\* GET /auth/verify-token
VerifyToken(header) ==
  LET a == authenticateToken(header) IN
  IF ~a.next THEN a.out
  ELSE IF a.user.sessionId \notin DOMAIN sessionStore
  THEN Fail(401, "Session not found")
  ELSE Out([status |-> 200, error |-> "", valid |-> TRUE,
            user |-> [email |-> a.user.email], sessionId |-> a.user.sessionId],
           otpStore,
           [sessionStore EXCEPT ![a.user.sessionId] = Touch(@)], {})

\* Faulty variant, for sensitivity of the properties: the session is not removed
LogoutKeep(header) ==
  LET a == authenticateToken(header) IN
  IF ~a.next THEN a.out
  ELSE Out([status |-> 200, error |-> "", message |-> "Logged out successfully"],
           otpStore, sessionStore, {})

\* Faulty variant, for sensitivity of the properties: logout ends every session
LogoutAll(header) ==
  LET a == authenticateToken(header) IN
  IF ~a.next THEN a.out
  ELSE Out([status |-> 200, error |-> "", message |-> "Logged out successfully"],
           otpStore, <<>>, {})

\* POST /auth/logout
Logout(header) ==
  LET a == authenticateToken(header) IN
  IF ~a.next THEN a.out
  ELSE Out([status |-> 200, error |-> "", message |-> "Logged out successfully"],
           otpStore, Remove(sessionStore, a.user.sessionId), {})

\* Faulty variant, for sensitivity of the properties: refreshing ends the session
RefreshTokenRevokes(header) ==
  LET a == authenticateToken(header) IN
  IF ~a.next THEN a.out
  ELSE IF a.user.sessionId \notin DOMAIN sessionStore
  THEN Fail(401, "Session not found")
  ELSE IF JwtSignThrows(Secret) THEN Threw(ErrNoKey, otpStore)
  ELSE LET newToken == generateToken(a.user.email, a.user.sessionId) IN
    Out([status |-> 200, error |-> "", token |-> newToken],
        otpStore,
        Remove(sessionStore, a.user.sessionId),
        {Minted(a.user.email, a.user.sessionId)})

\* POST /auth/refresh-token
RefreshToken(header) ==
  LET a == authenticateToken(header) IN
  IF ~a.next THEN a.out
  ELSE IF a.user.sessionId \notin DOMAIN sessionStore
  THEN Fail(401, "Session not found")
  ELSE IF JwtSignThrows(Secret) THEN Threw(ErrNoKey, otpStore)
  ELSE LET newToken == generateToken(a.user.email, a.user.sessionId) IN
    Out([status |-> 200, error |-> "", token |-> newToken],
        otpStore,
        [sessionStore EXCEPT ![a.user.sessionId] = Touch(@)],
        {Minted(a.user.email, a.user.sessionId)})

\* GET /auth/health
Health ==
  Out([status |-> 200, error |-> "", state |-> "ok", timestamp |-> IsoNow],
      otpStore, sessionStore, {})

\* Faulty variant, for sensitivity of the properties: entries are deleted
\* from expiresAt <= now on
CleanupEager ==
  [e \in {x \in DOMAIN otpStore : ~(otpStore[x].expiresAt <= now)} |-> otpStore[e]]

\* the setInterval callback: delete every entry with expiresAt < now
Cleanup ==
  [e \in {x \in DOMAIN otpStore : ~(otpStore[x].expiresAt < now)} |-> otpStore[e]]

\* ------------------------------------------------------------ state machine
ValidEmails == {e \in EmailInputs : Len(e) > 0 /\ EmailRegexTest(e)}

\* what clients submit as a code: the codes that can be issued, a wrong one
\* and none
OtpInputs == {Digits(n) : n \in CodeDraws} \cup {<<0, 0, 0, 0, 0, 0>>, <<>>}

\* the session id the next randomUUID() / randomBytes(32) draws: an id never
\* drawn before (every id drawn was put into a token)
UsedIds == {m.sessionId : m \in issued}

FreshIds == IF Cardinality(UsedIds) < Len(SessionIds)
            THEN {SessionIds[Cardinality(UsedIds) + 1]} ELSE {}

\* what a client without the secret can make of a token it holds
Resigned(t) == [payload |-> t.payload, sig |-> Mac("guess", t.payload)]

Extended(t) == [payload |-> [t.payload EXCEPT !.exp = MaxNow + JwtExpiresIn + 1],
                sig |-> t.sig]

\* the tokens clients hold, and every token a request can carry
Held == {m.token : m \in issued}

Tokens == Held \cup {Resigned(t) : t \in Held} \cup {Extended(t) : t \in Held}

Headers == {<<>>, <<"Bearer">>} \cup {<<"Bearer", t>> : t \in Tokens}

\* the email whose history is recorded
Watched == EmailA

\* code: the code last issued; mismatches: submissions answered "Invalid OTP";
\* after: whether a submission followed the MaxAttempts-th mismatch;
\* successes: submissions answered 200; prev: the code of the live entry the
\* last send-otp overwrote.  Counted since the last accepted send-otp.
NoHist == [code |-> <<>>, mismatches |-> 0, after |-> FALSE, successes |-> 0,
           prev |-> <<>>]

\* the session id a request's token names, if it carries a token
Named(header) == IF Len(header) >= 2 THEN <<header[2].payload.sessionId>> ELSE <<>>

\* the stores and timers as the module's top level leaves them
Constructed ==
  /\ now = 0
  /\ otpStore = <<>>
  /\ sessionStore = <<>>
  /\ issued = {}
  /\ pending = [c \in Clients |-> <<>>]
  /\ nextSweep = SweepInterval
  /\ last = [op |-> "none", arg |-> <<>>, status |-> 0, error |-> ""]
  /\ loggedOut = {}
  /\ hist = NoHist

\* the server started with its secret configured
Init ==
  /\ Constructed
  /\ env = Configured
  /\ listening = TRUE

\* the process at its start, with any environment
InitBoot ==
  /\ Constructed
  /\ env \in EnvInputs
  /\ listening = FALSE

\* app.listen(PORT): nothing is checked before the server listens
Listen ==
  /\ ~listening
  /\ listening' = TRUE
  /\ UNCHANGED <<env, now, otpStore, sessionStore, issued, pending, nextSweep,
                 last, loggedOut, hist>>

\* a handler ran to completion and answered; arg is the code or the session
\* id the request carried, where one of the properties below asks for it
Serve(op, arg, out) ==
  /\ otpStore' = out.otp
  /\ sessionStore' = out.sess
  /\ issued' = issued \cup out.minted
  /\ last' = [op |-> op, arg |-> arg, status |-> out.res.status,
              error |-> out.res.error]

ReqRegister(emails) ==
  /\ listening
  /\ \E email \in emails, password \in Passwords :
    /\ Serve("register", <<>>, Register(email, password))
    /\ UNCHANGED <<env, listening, now, pending, nextSweep, loggedOut, hist>>

ReqLogin(emails) ==
  /\ listening
  /\ \E email \in emails, password \in Passwords :
    \E sessionId \in IF Len(email) = 0 \/ password = "" THEN {"-"} ELSE FreshIds :
      /\ Serve("login", <<>>, Login(email, password, sessionId))
      /\ UNCHANGED <<env, listening, now, pending, nextSweep, loggedOut, hist>>

\* send-otp up to its await: rejected at once, or stored and suspended
ReqSendOtp(clients, emails, draws) ==
  /\ listening
  /\ \E c \in clients, email \in emails, n \in draws :
    LET out == SendOtpStore(email, n) IN
    /\ RandomInt(OtpLow, OtpHigh, n)
    /\ pending[c] = <<>>
    /\ IF out.res.status # 0
       THEN /\ Serve("send-otp", <<>>, out)
            /\ UNCHANGED <<env, listening, now, pending, nextSweep, loggedOut, hist>>
       ELSE /\ otpStore' = out.otp
            /\ pending' = [pending EXCEPT ![c] = <<[email |-> email, otp |-> Digits(n)]>>]
            /\ hist' = IF email # Watched THEN hist ELSE
                 [code |-> Digits(n), mismatches |-> 0, after |-> FALSE,
                  successes |-> 0,
                  prev |-> IF /\ email \in DOMAIN otpStore
                              /\ otpStore[email].attempts < MaxAttempts
                              /\ now <= otpStore[email].expiresAt
                           THEN otpStore[email].otp ELSE <<>>]
            /\ UNCHANGED <<env, listening, now, sessionStore, issued, nextSweep, last, loggedOut>>

\* sendMail settles and the suspended send-otp answers; the response is
\* recorded with the code that request had generated
MailDone(outcomes) ==
  \E c \in Clients, ok \in outcomes :
    /\ pending[c] # <<>>
    /\ pending' = [pending EXCEPT ![c] = <<>>]
    /\ Serve("send-otp", pending[c][1].otp, SendOtpReply(ok))
    /\ UNCHANGED <<env, listening, now, nextSweep, loggedOut, hist>>

ReqVerifyOtp(emails, otps) ==
  /\ listening
  /\ \E email \in emails, otp \in otps :
    \E sessionId \in IF VerifyOtp(email, otp, "-").minted = {} THEN {"-"} ELSE FreshIds :
      LET out == VerifyOtp(email, otp, sessionId) IN
      /\ Serve("verify-otp", otp, out)
      /\ hist' = IF email # Watched \/ Len(otp) = 0 THEN hist
                 ELSE [hist EXCEPT
                   !.successes = IF out.res.status = 200 /\ @ < 2 THEN @ + 1 ELSE @,
                   !.mismatches = IF out.res.error = "Invalid OTP." /\ @ <= MaxAttempts
                                  THEN @ + 1 ELSE @,
                   !.after = @ \/ hist.mismatches >= MaxAttempts]
      /\ UNCHANGED <<env, listening, now, pending, nextSweep, loggedOut>>

ReqVerifyToken ==
  /\ listening
  /\ \E header \in Headers :
    /\ Serve("verify-token", Named(header), VerifyToken(header))
    /\ UNCHANGED <<env, listening, now, pending, nextSweep, loggedOut, hist>>

ReqLogout ==
  /\ listening
  /\ \E header \in Headers :
    LET out == Logout(header) IN
    /\ Serve("logout", Named(header), out)
    /\ loggedOut' = IF out.res.status = 200
                    THEN loggedOut \cup {Named(header)[1]}
                    ELSE loggedOut
    /\ UNCHANGED <<env, listening, now, pending, nextSweep, hist>>

ReqRefreshToken ==
  /\ listening
  /\ \E header \in Headers :
    /\ Serve("refresh-token", Named(header), RefreshToken(header))
    /\ UNCHANGED <<env, listening, now, pending, nextSweep, loggedOut, hist>>

ReqHealth ==
  /\ listening
  /\ Serve("health", <<>>, Health)
  /\ UNCHANGED <<env, listening, now, pending, nextSweep, loggedOut, hist>>

\* the setInterval timer fires, not before it is due
Sweep ==
  /\ now >= nextSweep
  /\ otpStore' = Cleanup
  /\ nextSweep' = now + SweepInterval
  /\ UNCHANGED <<env, listening, now, sessionStore, issued, pending, last, loggedOut, hist>>

Tick ==
  /\ now < MaxNow
  /\ now' = now + 1
  /\ UNCHANGED <<env, listening, otpStore, sessionStore, issued, pending, nextSweep, last, loggedOut, hist>>

\* The specifications below take the same handlers and differ in the requests
\* clients make.  TLC explores each of them exhaustively except Spec, their
\* union with every input, which is the server as a whole.

\* the OTP flow of one email: send-otp (also with malformed emails) suspended
\* on its mail dispatch, verify-otp with right, wrong and missing codes, the
\* sweeper and the clock
NextOtp ==
  \/ ReqSendOtp({"c1"}, EmailInputs \ {EmailB}, CodeDraws)
  \/ MailDone(BOOLEAN)
  \/ ReqVerifyOtp(EmailInputs \ {EmailB}, OtpInputs)
  \/ Sweep
  \/ Tick

SpecOtp == Init /\ [][NextOtp]_vars

\* the session flow: sessions opened by login, then verify-token, logout and
\* refresh-token with held, tampered and missing tokens, and the clock
NextSess ==
  \/ ReqLogin({EmailA, EmailB, EmailMissing})
  \/ ReqVerifyToken
  \/ ReqLogout
  \/ ReqRefreshToken
  \/ Tick

SpecSess == Init /\ [][NextSess]_vars

\* the OTP store under two emails: send-otp for either, mismatching verify-otp
\* for the watched one (so that entries with failed attempts, locked and
\* expired entries get overwritten), the sweeper and the clock
NextSend ==
  \/ ReqSendOtp({"c1"}, {EmailA, EmailB}, CodeDraws)
  \/ MailDone({TRUE})
  \/ ReqVerifyOtp({EmailA}, {<<0, 0, 0, 0, 0, 0>>})
  \/ Sweep
  \/ Tick

SpecSend == Init /\ [][NextSend]_vars

\* the integers the code generator is tried on: both ends of the range given
\* to crypto.randomInt and their neighbours
DrawInputs == {0, OtpLow - 1, OtpLow, OtpHigh - 1, OtpHigh}

\* code generation: send-otp over these draws, its dispatch, verify-otp with
\* the codes they give and with one they cannot give, the sweeper and the clock
NextDraw ==
  \/ ReqSendOtp({"c1"}, {EmailA}, DrawInputs)
  \/ MailDone(BOOLEAN)
  \/ ReqVerifyOtp({EmailA}, {Digits(OtpLow), Digits(OtpHigh - 1), <<0, 0, 0, 0, 0, 0>>})
  \/ Sweep
  \/ Tick

SpecDraw == Init /\ [][NextDraw]_vars

\* the process from its start, with the secret configured or not: app.listen,
\* then login, the OTP flow of one email and one code, and the token
\* endpoints, all within one tick of the clock
NextBoot ==
  \/ Listen
  \/ ReqLogin({EmailA, EmailMissing})
  \/ ReqSendOtp({"c1"}, {EmailA}, {OtpLow})
  \/ MailDone({TRUE})
  \/ ReqVerifyOtp({EmailA}, {Digits(OtpLow)})
  \/ ReqVerifyToken
  \/ ReqLogout
  \/ ReqRefreshToken

SpecBoot == InitBoot /\ [][NextBoot]_vars

\* the endpoints that ask for no code and no token: register, login and
\* health, beside an OTP entry that is issued, mismatched and expires
NextAnon ==
  \/ ReqRegister({EmailA, EmailMissing})
  \/ ReqLogin({EmailA, EmailB, EmailNoDot, EmailMissing})
  \/ ReqHealth
  \/ ReqSendOtp({"c1"}, {EmailA}, {OtpLow})
  \/ MailDone({TRUE})
  \/ ReqVerifyOtp({EmailA}, {<<0, 0, 0, 0, 0, 0>>})
  \/ Tick

SpecAnon == Init /\ [][NextAnon]_vars

\* the OTP store and the session store together: two emails issued the same
\* code, verify-otp for the watched one with that code and with a wrong one,
\* the sweeper and the clock
NextPair ==
  \/ ReqSendOtp({"c1"}, {EmailA, EmailB}, {OtpLow})
  \/ MailDone({TRUE})
  \/ ReqVerifyOtp({EmailA}, {Digits(OtpLow), <<0, 0, 0, 0, 0, 0>>})
  \/ Sweep
  \/ Tick

SpecPair == Init /\ [][NextPair]_vars

\* overlapping requests for one email: send-otp on two connections, each
\* suspended on its own dispatch, the dispatches settling in any order, and
\* verify-otp with a right and a wrong code in between
NextRace ==
  \/ ReqSendOtp(Clients, {EmailA}, CodeDraws)
  \/ MailDone(BOOLEAN)
  \/ ReqVerifyOtp({EmailA}, {Digits(OtpLow), <<0, 0, 0, 0, 0, 0>>})
  \/ Tick

SpecRace == Init /\ [][NextRace]_vars

\* the whole server
Next ==
  \/ ReqRegister(EmailInputs)
  \/ ReqLogin(EmailInputs)
  \/ ReqSendOtp(Clients, EmailInputs, CodeDraws)
  \/ MailDone(BOOLEAN)
  \/ ReqVerifyOtp(EmailInputs, OtpInputs)
  \/ ReqVerifyToken
  \/ ReqLogout
  \/ ReqRefreshToken
  \/ ReqHealth
  \/ Sweep
  \/ Tick

Spec == Init /\ [][Next]_vars

\* ------------------------------------------------------- properties: OTP
ErrNoOtp == "No OTP found. Please request a new one."

ErrTooMany == "Too many failed attempts. Please request a new OTP."

ErrExpired == "OTP has expired. Please request a new one."

ErrInvalid == "Invalid OTP."

\* the codes a verify-otp can submit, and the session id it would draw
Submitted == OtpInputs \ {<<>>}

NewId == "s-new"

\* what a verify-otp for the watched email submitting otp would do now
Try(otp) == VerifyOtp(Watched, otp, NewId)

Stored == Watched \in DOMAIN otpStore

\* C2: once a verify-otp has succeeded for the email, and until the next
\* send-otp, a verify-otp submitting the same (correct) code is answered 400
\* "No OTP found" and changes nothing; no issued code is verified twice.
C2_SingleUse ==
  /\ hist.successes <= 1
  /\ hist.successes = 1 =>
       /\ Try(hist.code).res = [status |-> 400, error |-> ErrNoOtp]
       /\ Try(hist.code).otp = otpStore
       /\ Try(hist.code).sess = sessionStore
       /\ Try(hist.code).minted = {}

C2_Witness ==
  /\ hist.successes = 1
  /\ last.op = "verify-otp"
  /\ last.arg = hist.code
  /\ last.status = 400
  /\ last.error = ErrNoOtp

\* C3 as claimed: after 3 consecutive submissions rejected as mismatches the
\* 4th is answered 429, whatever code it carries, and deletes the entry; the
\* one after it is answered "No OTP found".
C3_AsClaimed ==
  /\ (hist.mismatches = 3 /\ ~hist.after) =>
       \A otp \in Submitted :
         /\ Try(otp).res = [status |-> 429, error |-> ErrTooMany]
         /\ Watched \notin DOMAIN Try(otp).otp
  /\ (hist.mismatches = 3 /\ hist.after) =>
       \A otp \in Submitted : Try(otp).res = [status |-> 400, error |-> ErrNoOtp]

\* C3 (amended): after 3 consecutive submissions rejected as mismatches the
\* 4th never succeeds, whatever code it carries: it is answered 429 and
\* deletes the entry while the entry is still stored, and 400 "No OTP found"
\* when the sweeper has removed the entry meanwhile; either way no entry is
\* left and the submission after it is answered "No OTP found".
C3_FourthFails ==
  /\ (hist.mismatches = 3 /\ ~hist.after) =>
       \A otp \in Submitted :
         /\ Stored => Try(otp).res = [status |-> 429, error |-> ErrTooMany]
         /\ ~Stored => Try(otp).res = [status |-> 400, error |-> ErrNoOtp]
         /\ Watched \notin DOMAIN Try(otp).otp
         /\ Try(otp).sess = sessionStore
         /\ Try(otp).minted = {}
  /\ (hist.mismatches = 3 /\ hist.after) =>
       /\ ~Stored
       /\ \A otp \in Submitted : Try(otp).res = [status |-> 400, error |-> ErrNoOtp]

C3_Witness ==
  /\ hist.mismatches = 3
  /\ hist.after
  /\ last.op = "verify-otp"
  /\ last.arg = hist.code
  /\ last.status = 429

\* C4: between two send-otp for the email at most 3 submissions are answered
\* as mismatches, and after the third no submission, correct or not, succeeds.
C4_GuessBound ==
  /\ hist.mismatches <= 3
  /\ hist.mismatches = 3 =>
       \A otp \in Submitted :
         /\ Try(otp).res.status # 200
         /\ Try(otp).res.error # ErrInvalid
         /\ Try(otp).sess = sessionStore
         /\ Try(otp).minted = {}

C4_Witness ==
  /\ hist.mismatches = 3
  /\ Stored
  /\ last.op = "verify-otp"
  /\ last.error = ErrInvalid

\* C5 as claimed: every verify-otp made at now > expiresAt is answered 400
\* "OTP has expired", even with the issued code.
C5_AsClaimed ==
  (Stored /\ now > otpStore[Watched].expiresAt) =>
    \A otp \in Submitted : Try(otp).res = [status |-> 400, error |-> ErrExpired]

\* C5 (amended): every verify-otp made at now > expiresAt of the stored entry
\* fails, even with the issued code: with 400 "OTP has expired" when the
\* entry has fewer than 3 failed attempts, and with 429 "Too many failed
\* attempts" when it has 3, the attempt limit being tested first.
C5_ExpiredFails ==
  (Stored /\ now > otpStore[Watched].expiresAt) =>
    \A otp \in Submitted :
      /\ otpStore[Watched].attempts < 3 =>
           Try(otp).res = [status |-> 400, error |-> ErrExpired]
      /\ otpStore[Watched].attempts >= 3 =>
           Try(otp).res = [status |-> 429, error |-> ErrTooMany]

C5_Witness ==
  /\ last.op = "verify-otp"
  /\ last.arg = hist.code
  /\ last.status = 400
  /\ last.error = ErrExpired

\* C6: a verify-otp made at now > expiresAt of the stored entry never
\* succeeds, whatever the attempts value: it creates no session and issues no
\* token, and when it reaches the expiry check it deletes the entry.
C6_NoLateSuccess ==
  (Stored /\ now > otpStore[Watched].expiresAt) =>
    \A otp \in OtpInputs :
      /\ Try(otp).res.status # 200
      /\ Try(otp).sess = sessionStore
      /\ Try(otp).minted = {}
      /\ (otp # <<>> /\ otpStore[Watched].attempts < 3) =>
           Watched \notin DOMAIN Try(otp).otp

C6_Witness ==
  /\ last.op = "verify-otp"
  /\ last.error = ErrExpired
  /\ hist.mismatches = 2
  /\ ~Stored
  /\ issued = {}

\* C7 as claimed: after a send-otp overwrote a live entry, a verify-otp
\* submitting the previous code does not succeed.
C7_AsClaimed == hist.prev # <<>> => Try(hist.prev).res.status # 200

\* C7 (amended): after a send-otp overwrote a live entry, a verify-otp
\* submitting the previous code succeeds only if the newly drawn code equals
\* the previous one; with a different new code it fails (not found, mismatch,
\* too many attempts or expired) and creates no session.
C7_OverwriteInvalidates ==
  hist.prev # <<>> =>
    /\ Try(hist.prev).res.status = 200 => hist.prev = hist.code
    /\ hist.prev # hist.code =>
         /\ Try(hist.prev).res.status \in {400, 429}
         /\ Try(hist.prev).res.error \in {ErrNoOtp, ErrInvalid, ErrTooMany, ErrExpired}
         /\ Try(hist.prev).sess = sessionStore
         /\ Try(hist.prev).minted = {}
         /\ Stored => otpStore[Watched].otp = hist.code

C7_Witness ==
  /\ hist.prev # <<>>
  /\ hist.prev # hist.code
  /\ last.op = "verify-otp"
  /\ last.arg = hist.prev
  /\ last.error = ErrInvalid

\* -------------------------------------------------- properties: sessions
ErrNoSession == "Session not found"

ErrNoToken == "Access token required"

ErrBadToken == "Invalid or expired token"

Bearer(t) == <<"Bearer", t>>

\* correctly signed (only generateToken holds the secret) and unexpired
Valid(t) == t \in Held /\ now < t.payload.exp

Live(t) == t.payload.sessionId \in DOMAIN sessionStore

\* the request is refused and nothing changes
Refused(out, status, error) ==
  /\ out.res = [status |-> status, error |-> error]
  /\ out.otp = otpStore
  /\ out.sess = sessionStore
  /\ out.minted = {}

\* C1: once a logout has been answered 200 for session s, s is never in the
\* session store again, and every verify-token and refresh-token carrying a
\* correctly signed, unexpired token bound to s (the one logged out with or
\* one obtained by refresh-token) is answered 401 "Session not found".
C1_LogoutRevokes ==
  \A s \in loggedOut :
    /\ s \notin DOMAIN sessionStore
    /\ \A t \in Held : (Valid(t) /\ t.payload.sessionId = s) =>
         /\ Refused(VerifyToken(Bearer(t)), 401, ErrNoSession)
         /\ Refused(RefreshToken(Bearer(t)), 401, ErrNoSession)

C1_Witness ==
  /\ last.op = "refresh-token"
  /\ last.status = 401
  /\ last.error = ErrNoSession
  /\ last.arg[1] \in loggedOut
  /\ Cardinality({t \in Held : Valid(t) /\ t.payload.sessionId = last.arg[1]}) >= 2

\* C8 as claimed: verify-token, logout and refresh-token all answer a
\* correctly signed, unexpired token whose session is absent with 401
\* "Session not found" and change nothing.
C8_AsClaimed ==
  \A t \in Held : (Valid(t) /\ ~Live(t)) =>
    /\ Refused(VerifyToken(Bearer(t)), 401, ErrNoSession)
    /\ Refused(RefreshToken(Bearer(t)), 401, ErrNoSession)
    /\ Refused(Logout(Bearer(t)), 401, ErrNoSession)

\* C8 (amended): verify-token and refresh-token answer a correctly signed,
\* unexpired token whose session is absent with 401 "Session not found"
\* (not the 403 of a bad token) and change nothing; logout checks the token
\* only: for such a token it answers 200 and changes nothing.
C8_TwoLayer ==
  \A t \in Held : (Valid(t) /\ ~Live(t)) =>
    /\ Refused(VerifyToken(Bearer(t)), 401, ErrNoSession)
    /\ Refused(RefreshToken(Bearer(t)), 401, ErrNoSession)
    /\ Logout(Bearer(t)).res.status = 200
    /\ Logout(Bearer(t)).otp = otpStore
    /\ Logout(Bearer(t)).sess = sessionStore
    /\ Logout(Bearer(t)).minted = {}

C8_Witness ==
  /\ last.op = "verify-token"
  /\ last.status = 401
  /\ last.error = ErrNoSession
  /\ \E t \in Held : Valid(t) /\ ~Live(t) /\ last.arg = <<t.payload.sessionId>>

\* C9 as claimed: verifying the token of generateToken(email, sessionId)
\* before its expiry yields exactly {email, sessionId}.
C9_AsClaimed ==
  \A m \in issued : now < m.token.payload.exp =>
    JwtVerify(m.token, Secret) =
      [err |-> FALSE, user |-> [email |-> m.email, sessionId |-> m.sessionId]]

\* C9 (amended): verifying the token of generateToken(email, sessionId)
\* before its expiry yields the email and sessionId given, together with the
\* iat and exp claims jwt.sign added and nothing else; verify-token answers
\* with exactly that email and sessionId.
C9_RoundTrip ==
  \A m \in issued : now < m.token.payload.exp =>
    LET v == JwtVerify(m.token, Secret) IN
    /\ ~v.err
    /\ DOMAIN v.user = {"email", "sessionId", "iat", "exp"}
    /\ v.user.email = m.email
    /\ v.user.sessionId = m.sessionId
    /\ v.user.exp = v.user.iat + JwtExpiresIn
    /\ Live(m.token) =>
         /\ VerifyToken(Bearer(m.token)).res.user = [email |-> m.email]
         /\ VerifyToken(Bearer(m.token)).res.sessionId = m.sessionId

C9_Witness ==
  /\ last.op = "verify-token"
  /\ last.status = 200
  /\ \E m \in issued :
       /\ last.arg = <<m.sessionId>>
       /\ m.token.payload.iat < now
       /\ now < m.token.payload.exp

\* C10: verify-token answers 200 valid:true exactly when a token is present,
\* correctly signed, unexpired and its session is stored; otherwise, in this
\* order: 401 for a missing token, 403 for a badly signed or expired one, 401
\* "Session not found" for an absent session.
C10_VerifyTokenOutcome ==
  \A h \in Headers :
    LET out == VerifyToken(h)
        present == Len(h) >= 2
        valid == present /\ Valid(h[2])
        live == valid /\ Live(h[2])
    IN /\ out.res.status = 200 <=> live
       /\ live => out.res.valid
       /\ ~present => Refused(out, 401, ErrNoToken)
       /\ (present /\ ~valid) => Refused(out, 403, ErrBadToken)
       /\ (valid /\ ~live) => Refused(out, 401, ErrNoSession)

C10_Witness ==
  /\ last.op = "verify-token"
  /\ last.status = 403
  /\ last.error = ErrBadToken
  /\ last.arg[1] \in loggedOut
  /\ \E t \in Held : t.payload.sessionId = last.arg[1] /\ now >= t.payload.exp

\* ------------------------------------------ properties: the open endpoints
\* the request suspended on connection c, and the step that accepted it
Suspended(c) == pending[c][1]

Accepted(c) == pending[c] = <<>> /\ pending'[c] # <<>>

\* C11: every step in which a send-otp for email e is accepted at time t,
\* whatever e's entry was before (absent, live, expired or with 3 failed
\* attempts), leaves the OTP store with the entry of e being the code just
\* drawn with attempts = 0 and expiresAt = t + 5 minutes, no other key added
\* or removed, and the entries of all other emails as they were.
C11_SendOtpStores ==
  [][\A c \in Clients : Accepted(c) =>
       LET e == Suspended(c).email' IN
       /\ DOMAIN otpStore' = DOMAIN otpStore \cup {e}
       /\ otpStore'[e] = [otp |-> Suspended(c).otp', expiresAt |-> now + OtpTtl,
                          attempts |-> 0]
       /\ \A x \in DOMAIN otpStore \ {e} : otpStore'[x] = otpStore[x]
       /\ sessionStore' = sessionStore]_vars

\* a send-otp for the watched email was accepted over its entry with failed
\* attempts while the other email's entry is stored
C11_Witness ==
  /\ pending["c1"] # <<>>
  /\ Suspended("c1").email = Watched
  /\ last.op = "verify-otp"
  /\ last.error = ErrInvalid
  /\ hist.mismatches = 0
  /\ Stored
  /\ otpStore[Watched].attempts = 0
  /\ EmailB \in DOMAIN otpStore
  /\ now > otpStore[EmailB].expiresAt

\* emails that are missing or not of the shape local@domain.tld
Malformed ==
  {EmailMissing, EmailNoDot, EmailSpace,
   <<"@", "x", ".", "c">>, <<"a", "@", ".", "c">>, <<"a", "@", "x", ".">>,
   <<"a", "@", "@", "x", ".", "c">>, <<"a", "x", ".", "c">>,
   <<"a", "@", "x", ".", "c", " ">>}

ErrNoEmail == "Email is required"

ErrBadEmail == "Invalid email format"

\* C12: a send-otp whose email is missing or malformed is answered 400 at
\* once and changes neither the OTP store (every stored entry keeps its code,
\* expiry and attempts) nor the session store; it never reaches the mail
\* dispatch: no request suspended on sendMail carries such an email.
C12_InvalidEmailRejected ==
  /\ [](\A e \in Malformed : \A n \in CodeDraws :
          Refused(SendOtpStore(e, n), 400,
                  IF e = EmailMissing THEN ErrNoEmail ELSE ErrBadEmail))
  /\ [][\A c \in Clients : Accepted(c) => Suspended(c).email' \notin Malformed]_vars

\* a malformed send-otp was answered while an entry with a failed attempt is
\* stored and no dispatch is under way
C12_Witness ==
  /\ last.op = "send-otp"
  /\ last.status = 400
  /\ last.error = ErrBadEmail
  /\ Stored
  /\ otpStore[Watched].attempts = 1
  /\ \A c \in Clients : pending[c] = <<>>

ErrMail == "Failed to send OTP. Please try again."

\* the last request answered was a send-otp whose dispatch failed, and the
\* entry of the watched email is stored and unexpired
MailFailed ==
  /\ last.op = "send-otp"
  /\ last.status = 500
  /\ Stored
  /\ now <= otpStore[Watched].expiresAt

\* C13 as claimed: after a send-otp answered 500, a verify-otp with the code
\* it issued, made before the expiry of the stored entry, succeeds.
C13_AsClaimed == MailFailed => Try(hist.code).res.status = 200

\* C13 (amended): an accepted send-otp gives no response before the dispatch
\* has settled; it then answers 200 with expiresIn 300 if the dispatch
\* succeeded and 500 if it failed, and neither reply changes a store.  After
\* the 500 the entry still stored holds the code issued, and a verify-otp
\* with that code before expiry succeeds exactly if the entry has fewer than
\* 3 failed attempts (requests handled while the dispatch was under way can
\* have locked or consumed it).
C13_MailOutcome ==
  /\ \A e \in ValidEmails : \A n \in CodeDraws : SendOtpStore(e, n).res.status = 0
  /\ SendOtpReply(TRUE).res = [status |-> 200, error |-> "", expiresIn |-> 300]
  /\ SendOtpReply(TRUE).otp = otpStore
  /\ SendOtpReply(TRUE).sess = sessionStore
  /\ Refused(SendOtpReply(FALSE), 500, ErrMail)
  /\ MailFailed =>
       /\ otpStore[Watched].otp = hist.code
       /\ Try(hist.code).res.status = 200 <=> otpStore[Watched].attempts < 3

\* the dispatch failed, the entry is kept and its code would still verify
C13_Witness ==
  /\ MailFailed
  /\ now > 0
  /\ otpStore[Watched].attempts = 2
  /\ Try(hist.code).res.status = 200

\* C14: a verify-otp for email e that succeeds deletes the entry of e and
\* leaves the other entries alone, adds exactly one session, under an id the
\* session store did not hold and owned by e, changes no other session, and
\* returns that id and a token whose payload carries e and that id.
C14_VerifyCreatesSession ==
  \A otp \in Submitted : \A id \in FreshIds :
    LET out == VerifyOtp(Watched, otp, id) IN
    out.res.status = 200 =>
      /\ DOMAIN out.otp = DOMAIN otpStore \ {Watched}
      /\ \A x \in DOMAIN out.otp : out.otp[x] = otpStore[x]
      /\ id \notin DOMAIN sessionStore
      /\ DOMAIN out.sess = DOMAIN sessionStore \cup {id}
      /\ out.sess[id].email = Watched
      /\ \A x \in DOMAIN sessionStore : out.sess[x] = sessionStore[x]
      /\ out.res.sessionId = id
      /\ out.res.user = [email |-> Watched]
      /\ out.res.token.payload.email = Watched
      /\ out.res.token.payload.sessionId = id
      /\ JwtVerify(out.res.token, Secret).user.sessionId = id
      /\ out.minted = {Minted(Watched, id)}

\* a second verify-otp succeeded: two sessions of the email, opened at
\* different times, and no entry left
C14_Witness ==
  /\ last.op = "verify-otp"
  /\ last.status = 200
  /\ ~Stored
  /\ DOMAIN sessionStore = {"s1", "s2"}
  /\ sessionStore["s1"].email = Watched
  /\ sessionStore["s2"].email = Watched
  /\ sessionStore["s1"].createdAt # sessionStore["s2"].createdAt
  /\ Cardinality(issued) = 2

\* 6-character decimal strings: the least and the greatest, the greatest with
\* a leading zero, and both ends of what crypto.randomInt was given
SixDigitStrings ==
  {<<0, 0, 0, 0, 0, 0>>, <<0, 9, 9, 9, 9, 9>>, <<1, 0, 0, 0, 0, 0>>,
   <<9, 9, 9, 9, 9, 8>>, <<9, 9, 9, 9, 9, 9>>}

\* a send-otp is accepted and stores the code d
Issue(d) ==
  /\ ReqSendOtp({"c1"}, {Watched}, DrawInputs)
  /\ otpStore'[Watched].otp = d

\* C15 as claimed: every code send-otp stores has exactly 6 digits, and
\* whenever a send-otp can be accepted it can store any 6-character decimal
\* string, those with leading zeros and 999999 included.
C15_AsClaimed ==
  /\ \A e \in DOMAIN otpStore : Len(otpStore[e].otp) = 6
  /\ pending["c1"] = <<>> => \A d \in SixDigitStrings : ENABLED Issue(d)

\* what the code does instead: the codes stored are the 6-digit strings from
\* 100000 to 999998, so none has a leading zero and 999999 is never issued
C15_CodesIssued ==
  /\ \A e \in DOMAIN otpStore :
       /\ Len(otpStore[e].otp) = 6
       /\ otpStore[e].otp[1] # 0
       /\ otpStore[e].otp # Digits(OtpHigh)
  /\ pending["c1"] = <<>> =>
       \A d \in SixDigitStrings :
         ENABLED Issue(d) <=> d \in {Digits(OtpLow), Digits(OtpHigh - 1)}

\* ------------------------------------------------------ properties: startup
NoSecret == env.JWT_SECRET = Undefined

\* C16 as claimed: without a configured secret the server never listens and
\* never handles a request.
C16_AsClaimed == NoSecret => (~listening /\ last.op = "none")

\* what the code does instead: nothing reads the secret before app.listen, so
\* the server listens and serves; every login and every verify-otp with the
\* right code then throws inside jwt.sign at request time (the verify-otp
\* after having deleted the entry), no session or token ever exists, and the
\* token endpoints answer 401 or 403.
C16_FailsAtRequestTime ==
  NoSecret =>
    /\ sessionStore = <<>>
    /\ issued = {}
    /\ last.op = "login" => (last.status = 400 \/ (last.status = 0 /\ last.error = ErrNoKey))
    /\ last.op = "verify-otp" => last.status \in {400, 429, 0}
    /\ last.op \in {"verify-token", "logout", "refresh-token"} => last.status \in {401, 403}
    /\ listening =>
         /\ Login(EmailA, "pw", NewId) = Threw(ErrNoKey, otpStore)
         /\ \A h \in Headers : VerifyToken(h).res.status \in {401, 403}

\* -------------------------------------------------- properties: responses
\* what a verify-otp not carrying the stored code is answered, told from the
\* entry's presence, attempts and expiry alone
Unmatched ==
  IF ~Stored THEN [status |-> 400, error |-> ErrNoOtp]
  ELSE IF otpStore[Watched].attempts >= 3 THEN [status |-> 429, error |-> ErrTooMany]
  ELSE IF now > otpStore[Watched].expiresAt THEN [status |-> 400, error |-> ErrExpired]
  ELSE [status |-> 400, error |-> ErrInvalid,
        remaining |-> 2 - otpStore[Watched].attempts]

\* a step after which the server differs in the OTP store but not in its
\* sessions, tokens issued and clock; one that changed nothing but the code
\* stored for the watched email
OtpStoreStep ==
  /\ otpStore' # otpStore
  /\ sessionStore' = sessionStore
  /\ issued' = issued
  /\ now' = now

CodeStep ==
  /\ OtpStoreStep
  /\ Stored
  /\ Stored'
  /\ otpStore'[Watched].otp # otpStore[Watched].otp
  /\ otpStore'[Watched].expiresAt = otpStore[Watched].expiresAt
  /\ otpStore'[Watched].attempts = otpStore[Watched].attempts

\* C17: no response tells the stored code.  A verify-otp that does not carry
\* the stored code is answered from the entry's presence, attempts and expiry
\* alone; in two states that differ only in the code stored, a verify-otp
\* mismatching both codes gets the same response; and in two states that
\* differ in the OTP store only, every send-otp, verify-token, logout and
\* refresh-token gets the same response.
C17_NoCodeLeak ==
  /\ [](\A otp \in Submitted :
          (Stored => otp # otpStore[Watched].otp) => Try(otp).res = Unmatched)
  /\ [][CodeStep =>
          \A otp \in Submitted \ {otpStore[Watched].otp, otpStore'[Watched].otp} :
            (Try(otp).res)' = Try(otp).res]_vars
  /\ [][OtpStoreStep =>
          /\ \A e \in EmailInputs : \A n \in CodeDraws :
               (SendOtpStore(e, n).res)' = SendOtpStore(e, n).res
          /\ \A ok \in BOOLEAN : (SendOtpReply(ok).res)' = SendOtpReply(ok).res
          /\ \A h \in Headers :
               /\ (VerifyToken(h).res)' = VerifyToken(h).res
               /\ (Logout(h).res)' = Logout(h).res
               /\ (RefreshToken(h).res)' = RefreshToken(h).res]_vars

\* after a send-otp replaced the code of a live entry by a different one,
\* with a token issued, a verify-otp mismatching both codes was answered
C17_Witness ==
  /\ hist.prev # <<>>
  /\ hist.prev # hist.code
  /\ issued # {}
  /\ last.op = "verify-otp"
  /\ last.arg = <<0, 0, 0, 0, 0, 0>>
  /\ last.error = ErrInvalid
  /\ hist.mismatches = 1

\* ------------------------------------- properties: login, register, health
ErrNoCredentials == "Email and password are required"

\* C18: a login with a non-empty email (of any shape) and a non-empty
\* password succeeds whatever the password is and leaves the OTP store as it
\* was: it adds exactly one session, under a new id and owned by that email,
\* changes no other session and returns a token carrying the email and that
\* id; with the email or the password missing it is answered 400 and changes
\* nothing.
C18_LoginAlwaysSucceeds ==
  /\ \A e \in EmailInputs \ {EmailMissing} : \A p \in Passwords \ {""} :
       \A id \in FreshIds :
         LET out == Login(e, p, id) IN
         /\ out.res.status = 200
         /\ out = Login(e, "pw", id)
         /\ out.otp = otpStore
         /\ id \notin DOMAIN sessionStore
         /\ DOMAIN out.sess = DOMAIN sessionStore \cup {id}
         /\ out.sess[id].email = e
         /\ \A x \in DOMAIN sessionStore : out.sess[x] = sessionStore[x]
         /\ out.res.access_token.payload.email = e
         /\ out.res.access_token.payload.sessionId = id
         /\ out.minted = {Minted(e, id)}
  /\ \A e \in EmailInputs : \A p \in Passwords :
       (e = EmailMissing \/ p = "") => Refused(Login(e, p, NewId), 400, ErrNoCredentials)

\* a second login succeeded while an entry with a failed attempt is stored
C18_Witness ==
  /\ last.op = "login"
  /\ last.status = 200
  /\ Stored
  /\ otpStore[Watched].attempts = 1
  /\ DOMAIN sessionStore = {"s1", "s2"}
  /\ sessionStore["s1"].email # sessionStore["s2"].email

\* C19: health and register change nothing, whatever the body: the OTP store
\* and the session store stay as they are and no token is issued; health
\* always answers 200 with status ok.
C19_NoSideEffects ==
  /\ Health.res.status = 200
  /\ Health.res.state = "ok"
  /\ Health.otp = otpStore
  /\ Health.sess = sessionStore
  /\ Health.minted = {}
  /\ \A e \in EmailInputs : \A p \in Passwords :
       /\ Register(e, p).otp = otpStore
       /\ Register(e, p).sess = sessionStore
       /\ Register(e, p).minted = {}
       /\ Register(e, p).res.status = IF e = EmailMissing \/ p = "" THEN 400 ELSE 200

\* a register was answered with an entry and a session stored
C19_Witness ==
  /\ last.op = "register"
  /\ last.status = 200
  /\ Stored
  /\ sessionStore # <<>>
  /\ now > 0

\* ------------------------------------------- properties: order of checks
\* the request is answered res, deletes the entry and changes nothing else
Dropped(out, res) ==
  /\ out.res = res
  /\ out.otp = Remove(otpStore, Watched)
  /\ out.sess = sessionStore
  /\ out.minted = {}

\* C20: verify-otp tests existence, then the attempt limit, then the expiry,
\* then equality.  Without an entry every code is answered "No OTP found";
\* an entry with 3 failed attempts is answered 429, expired or not; an
\* expired entry with fewer is answered "OTP has expired" whether or not the
\* code matches, and is deleted, so that no attempt is counted; only a live
\* entry is compared: a mismatch counts one attempt, a match succeeds.
C20_CheckOrder ==
  \A otp \in Submitted :
    LET out == Try(otp)
        entry == otpStore[Watched]
    IN /\ ~Stored => Refused(out, 400, ErrNoOtp)
       /\ (Stored /\ entry.attempts >= 3) =>
            Dropped(out, [status |-> 429, error |-> ErrTooMany])
       /\ (Stored /\ entry.attempts < 3 /\ now > entry.expiresAt) =>
            Dropped(out, [status |-> 400, error |-> ErrExpired])
       /\ (Stored /\ entry.attempts < 3 /\ now <= entry.expiresAt /\ otp # entry.otp) =>
            /\ out.res.error = ErrInvalid
            /\ out.otp = [otpStore EXCEPT ![Watched].attempts = entry.attempts + 1]
            /\ out.sess = sessionStore
       /\ (Stored /\ entry.attempts < 3 /\ now <= entry.expiresAt /\ otp = entry.otp) =>
            out.res.status = 200

\* an expired entry with one failed attempt was submitted a wrong code and
\* answered "OTP has expired"
C20_Witness ==
  /\ last.op = "verify-otp"
  /\ last.arg = <<0, 0, 0, 0, 0, 0>>
  /\ last.status = 400
  /\ last.error = ErrExpired
  /\ hist.mismatches = 1
  /\ ~Stored

\* ------------------------------------------------ properties: the attempts
\* the entry of the watched email is live: not locked and not expired
LiveEntry ==
  /\ Stored
  /\ otpStore[Watched].attempts < 3
  /\ now <= otpStore[Watched].expiresAt

\* C21: a verify-otp whose code differs from that of a live entry raises the
\* entry's attempts by exactly 1 and leaves its code and expiry, keeps every
\* key of the OTP store, changes no other entry and no session, issues no
\* token, and is answered 400 "Invalid OTP" with a remaining number equal to 3
\* minus the new attempts value: 2, 1, then 0.
C21_MismatchCounts ==
  \A otp \in Submitted :
    (LiveEntry /\ otp # otpStore[Watched].otp) =>
      LET out == Try(otp) IN
      /\ DOMAIN out.otp = DOMAIN otpStore
      /\ out.otp[Watched].attempts = otpStore[Watched].attempts + 1
      /\ out.otp[Watched].otp = otpStore[Watched].otp
      /\ out.otp[Watched].expiresAt = otpStore[Watched].expiresAt
      /\ \A x \in DOMAIN otpStore \ {Watched} : out.otp[x] = otpStore[x]
      /\ out.sess = sessionStore
      /\ out.minted = {}
      /\ out.res.status = 400
      /\ out.res.error = ErrInvalid
      /\ out.res.remaining = 3 - out.otp[Watched].attempts
      /\ out.res.remaining = CASE otpStore[Watched].attempts = 0 -> 2
                               [] otpStore[Watched].attempts = 1 -> 1
                               [] otpStore[Watched].attempts = 2 -> 0

\* the third mismatch was answered, beside the other email's entry and a
\* session
C21_Witness ==
  /\ last.op = "verify-otp"
  /\ last.error = ErrInvalid
  /\ Stored
  /\ otpStore[Watched].attempts = 3
  /\ EmailB \in DOMAIN otpStore
  /\ sessionStore # <<>>

\* ------------------------------------------- properties: overlapping requests
\* the send-otp suspended on connection c resumes and answers
Resumed(c) == pending[c] # <<>> /\ pending'[c] = <<>>

\* C22: requests for one email interleave only at the await of send-otp, and
\* each acts on the stores in one piece: of the verify-otp requests carrying
\* the code of one accepted send-otp at most one succeeds, and it leaves no
\* entry; the attempts of the stored entry equal the number of submissions
\* answered as mismatches since that send-otp, so none is lost; and a
\* send-otp that resumes after its dispatch writes to no store.
C22_NoRace ==
  /\ [](/\ hist.successes <= 1
        /\ hist.successes = 1 => ~Stored
        /\ Stored => otpStore[Watched].attempts = hist.mismatches)
  /\ [][\A c \in Clients : Resumed(c) =>
          /\ otpStore' = otpStore
          /\ sessionStore' = sessionStore]_vars

\* with a send-otp still suspended, the code was verified and a second
\* verify-otp carrying it was refused
C22_Witness ==
  /\ pending["c1"] # <<>>
  /\ Suspended("c1").otp = hist.code
  /\ hist.successes = 1
  /\ hist.mismatches = 2
  /\ last.op = "verify-otp"
  /\ last.arg = hist.code
  /\ last.error = ErrNoOtp

\* ------------------------------------------------- properties: the sweeper
\* a run of the setInterval callback
SweepStep == nextSweep' # nextSweep

\* C23: a sweeper run at time now leaves in the OTP store exactly the entries
\* with expiresAt >= now, each with its code, expiry and attempts as before,
\* so that no entry with expiresAt < now remains; it changes no session and
\* issues no token.
C23_SweepDeletesExpired ==
  [][SweepStep =>
       /\ DOMAIN otpStore' = {e \in DOMAIN otpStore : otpStore[e].expiresAt >= now}
       /\ \A e \in DOMAIN otpStore' :
            /\ otpStore'[e] = otpStore[e]
            /\ ~(otpStore'[e].expiresAt < now)
       /\ sessionStore' = sessionStore
       /\ issued' = issued
       /\ now' = now]_vars

\* a run has just removed the watched email's expired entry (the last
\* response was a mismatch, which leaves the entry stored) and kept the other
\* email's entry, which expires at this instant, beside a session
C23_Witness ==
  /\ nextSweep = now + SweepInterval
  /\ last.op = "verify-otp"
  /\ last.error = ErrInvalid
  /\ ~Stored
  /\ EmailB \in DOMAIN otpStore
  /\ otpStore[EmailB].expiresAt = now
  /\ sessionStore # <<>>

\* a store without its entries that have expired by now
Unexpired(store) ==
  [e \in {x \in DOMAIN store : ~(store[x].expiresAt < now)} |-> store[e]]

\* C24: the sweeper is not needed for correctness.  A sweeper run takes the
\* server from the state it would be in without the run to the state with it;
\* in both states every verify-otp is accepted or refused alike, creates the
\* same session and token, and leaves stores that differ at most by expired
\* entries; every send-otp answers alike and leaves the same store; where the
\* two responses to a verify-otp differ, the one after the run is not-found
\* and the one without it is expired or too-many-attempts.
C24_SweeperNotNeeded ==
  [][SweepStep =>
       /\ \A otp \in Submitted :
            /\ (Try(otp).res.status = 200)' <=> (Try(otp).res.status = 200)
            /\ (Try(otp).sess)' = Try(otp).sess
            /\ (Try(otp).minted)' = Try(otp).minted
            /\ \/ (Try(otp).otp)' = Try(otp).otp
               \/ (Try(otp).otp)' = Unexpired(Try(otp).otp)
            /\ \/ (Try(otp).res)' = Try(otp).res
               \/ /\ (Try(otp).res.error)' = ErrNoOtp
                  /\ Try(otp).res.error \in {ErrExpired, ErrTooMany}
       /\ \A n \in DrawInputs :
            (SendOtpStore(Watched, n))' = SendOtpStore(Watched, n)]_vars

\* a run has removed the expired entry (the last response was a mismatch,
\* which leaves the entry stored): the code that was issued is now answered
\* not-found, and a session created earlier is still there
C24_Witness ==
  /\ nextSweep = now + SweepInterval
  /\ last.op = "verify-otp"
  /\ last.error = ErrInvalid
  /\ ~Stored
  /\ hist.code # <<>>
  /\ Try(hist.code).res.error = ErrNoOtp
  /\ sessionStore # <<>>

\* ----------------------------------------------- properties: session records
\* C25 as claimed: every session holds exactly the identifier, createdAt and
\* lastActivity.
C25_AsClaimed ==
  \A s \in DOMAIN sessionStore :
    DOMAIN sessionStore[s] = {"email", "createdAt", "lastActivity"}

\* what the code does instead: a session created by login holds lastActive
\* and no lastActivity until a verify-token or refresh-token adds one, and
\* from then on carries both, lastActive keeping the time of creation; the
\* touch itself is as claimed: it sets lastActivity to the current time and
\* leaves the email and createdAt alone.
C25_SessionFields ==
  /\ \A s \in DOMAIN sessionStore :
       /\ {"email", "createdAt"} \subseteq DOMAIN sessionStore[s]
       /\ DOMAIN sessionStore[s] \in
            {{"email", "createdAt", "lastActivity"},
             {"email", "createdAt", "lastActive"},
             {"email", "createdAt", "lastActive", "lastActivity"}}
       /\ "lastActive" \in DOMAIN sessionStore[s] =>
            sessionStore[s].lastActive = sessionStore[s].createdAt
  /\ \A t \in Held : Valid(t) /\ Live(t) =>
       LET sid == t.payload.sessionId IN
       \A out \in {VerifyToken(Bearer(t)), RefreshToken(Bearer(t))} :
         /\ out.res.status = 200
         /\ out.sess[sid].lastActivity = IsoNow
         /\ out.sess[sid].email = sessionStore[sid].email
         /\ out.sess[sid].createdAt = sessionStore[sid].createdAt

\* ----------------------------------------------- properties: refresh-token
\* a refresh-token request was answered 200
RefreshStep == last'.op = "refresh-token" /\ last'.status = 200 /\ now' = now

\* C26: refresh-token with a token that is unexpired and whose session exists
\* answers 200 with a token for the same email and the same sessionId, leaves
\* the set of sessions and the OTP store as they are, and revokes nothing:
\* every held token, the presented one included, is answered by verify-token
\* after the refresh as before it, so the old token is accepted as long as it
\* is unexpired and its session exists.  An expired token is refused with 403.
C26_RefreshKeepsOldToken ==
  /\ [](\A t \in Held :
         LET out == RefreshToken(Bearer(t)) IN
         /\ Valid(t) /\ Live(t) =>
              /\ out.res.status = 200
              /\ out.res.token.payload.email = t.payload.email
              /\ out.res.token.payload.sessionId = t.payload.sessionId
              /\ out.res.token.payload.exp = now + JwtExpiresIn
              /\ out.minted = {[token |-> out.res.token,
                                email |-> t.payload.email,
                                sessionId |-> t.payload.sessionId]}
              /\ DOMAIN out.sess = DOMAIN sessionStore
              /\ out.otp = otpStore
              /\ VerifyToken(Bearer(t)).res.status = 200
         /\ ~(now < t.payload.exp) => Refused(out, 403, ErrBadToken))
  /\ [][RefreshStep =>
         \A t \in Held :
           (VerifyToken(Bearer(t)).res.status)' = VerifyToken(Bearer(t)).res.status]_vars

\* a refresh has just answered 200 with a new token while the older token of
\* the same session, issued earlier, is still accepted
C26_Witness ==
  /\ last.op = "refresh-token"
  /\ last.status = 200
  /\ \E t, u \in Held :
       /\ t.payload.sessionId = last.arg[1]
       /\ u.payload.sessionId = last.arg[1]
       /\ t.payload.iat < u.payload.iat
       /\ u.payload.iat = now
       /\ Valid(t)
       /\ VerifyToken(Bearer(t)).res.status = 200

\* ------------------------------------------------------ properties: logout
\* a logout request was answered 200
LogoutStep ==
  /\ last'.op = "logout"
  /\ last'.status = 200
  /\ pending' = pending
  /\ now' = now

\* C27: a logout with a correctly signed, unexpired token answers 200 and
\* removes the session the token names and nothing else: every other session,
\* of the same email or another, stays with the same record, the OTP store is
\* as before and no token is issued; every held token of another session is
\* answered by verify-token after the logout as before it.
C27_LogoutRemovesOne ==
  /\ [](\A t \in Held : Valid(t) =>
         LET out == Logout(Bearer(t))
             sid == t.payload.sessionId IN
         /\ out.res.status = 200
         /\ DOMAIN out.sess = DOMAIN sessionStore \ {sid}
         /\ \A s \in DOMAIN sessionStore \ {sid} : out.sess[s] = sessionStore[s]
         /\ out.otp = otpStore
         /\ out.minted = {})
  /\ [][LogoutStep =>
         /\ otpStore' = otpStore
         /\ \A t \in Held :
              t.payload.sessionId # last'.arg[1] =>
                /\ Live(t)' <=> Live(t)
                /\ (VerifyToken(Bearer(t)).res.status)' =
                     VerifyToken(Bearer(t)).res.status]_vars

\* a logout has just ended one session of an email that holds another
\* session, whose token still passes verify-token, while an OTP entry is
\* stored
C27_Witness ==
  /\ last.op = "logout"
  /\ last.status = 200
  /\ last.arg[1] \notin DOMAIN sessionStore
  /\ Stored
  /\ \E t, u \in Held :
       /\ u.payload.sessionId = last.arg[1]
       /\ t.payload.sessionId # last.arg[1]
       /\ t.payload.email = u.payload.email
       /\ Live(t)
       /\ VerifyToken(Bearer(t)).res.status = 200

\* ------------------------------------------------ properties: attempt count
\* C28: every OTP entry has attempts in 0..MaxAttempts.  An entry appears or
\* is replaced only as a fresh one, with attempts 0; otherwise an entry
\* changes only by attempts + 1, on a verify-otp answered with a mismatch,
\* from attempts below MaxAttempts and with code and expiry untouched.  On an
\* entry with attempts = MaxAttempts every verify-otp, with the stored code
\* too, is answered 429 and deletes the entry.
C28_AttemptsBounded ==
  /\ [](/\ \A e \in DOMAIN otpStore : otpStore[e].attempts \in 0..MaxAttempts
        /\ Stored /\ otpStore[Watched].attempts = MaxAttempts =>
             \A otp \in Submitted :
               /\ Try(otp).res = [status |-> 429, error |-> ErrTooMany]
               /\ Try(otp).otp = Remove(otpStore, Watched)
               /\ Try(otp).sess = sessionStore)
  /\ [][\A e \in DOMAIN otpStore' :
          \/ e \in DOMAIN otpStore /\ otpStore'[e] = otpStore[e]
          \/ /\ otpStore'[e].attempts = 0
             /\ otpStore'[e].expiresAt = now + OtpTtl
             /\ pending' # pending
          \/ /\ e \in DOMAIN otpStore
             /\ otpStore[e].attempts < MaxAttempts
             /\ otpStore'[e] = [otpStore[e] EXCEPT !.attempts = @ + 1]
             /\ last'.op = "verify-otp"
             /\ last'.status = 400
             /\ last'.arg # otpStore[e].otp]_vars

\* the issued code itself has just been answered 429, after three mismatches,
\* and the entry is gone
C28_Witness ==
  /\ last.op = "verify-otp"
  /\ last.status = 429
  /\ hist.code # <<>>
  /\ last.arg = hist.code
  /\ hist.mismatches = MaxAttempts
  /\ ~Stored

\* ------------------------------------------- properties: the expiry boundary
\* C29: the sweeper and verify-otp agree on expiry.  An entry for which some
\* verify-otp would be accepted at this instant is kept by a sweeper run at
\* this instant, as it is; the sweeper deletes an entry exactly when verify-otp
\* would refuse it as expired (leaving the attempt limit aside); and at
\* now = expiresAt an entry with attempts below MaxAttempts is kept by the
\* sweeper and its code is accepted.
C29_BoundaryAgrees ==
  /\ \A otp \in Submitted :
       Try(otp).res.status = 200 =>
         /\ Watched \in DOMAIN Cleanup
         /\ Cleanup[Watched] = otpStore[Watched]
  /\ \A e \in DOMAIN otpStore :
       (e \notin DOMAIN Cleanup) <=> OtpExpired(otpStore[e])
  /\ Stored /\ otpStore[Watched].expiresAt = now
            /\ otpStore[Watched].attempts < MaxAttempts =>
       /\ Cleanup = otpStore
       /\ Try(otpStore[Watched].otp).res.status = 200
       /\ Try(otpStore[Watched].otp).sess # sessionStore

\* the sweeper has just run at the very instant the entry expires and the
\* entry is still there, its code still accepted
C29_Witness ==
  /\ Stored
  /\ otpStore[Watched].expiresAt = now
  /\ nextSweep = now + SweepInterval
  /\ hist.mismatches > 0
  /\ Try(hist.code).res.status = 200

\* ------------------------------------------- properties: overlapping send-otp
\* C30: with send-otp requests for one email overlapping, the stored code is
\* always the code of the request that started last, and the dispatches,
\* settling in any order and with any outcome, do not change the store.  A
\* suspended request whose code has been overwritten still answers 200 when
\* its dispatch succeeds, although no verify-otp with its code is accepted.
C30_LastStartedWins ==
  /\ [](/\ Stored => otpStore[Watched].otp = hist.code
        /\ \A c \in Clients :
             pending[c] # <<>> /\ Suspended(c).otp # hist.code =>
               /\ SendOtpReply(TRUE).res.status = 200
               /\ SendOtpReply(TRUE).otp = otpStore
               /\ Try(Suspended(c).otp).res.status # 200)
  /\ [][\A c \in Clients : Resumed(c) =>
          /\ otpStore' = otpStore
          /\ last'.op = "send-otp"
          /\ last'.arg = Suspended(c).otp
          /\ last'.status \in {200, 500}]_vars

\* both requests have answered, the one that started first answering last
\* and with 200: its code is not the stored one and is not accepted, while
\* the code of the request that started last is
C30_Witness ==
  /\ \A c \in Clients : pending[c] = <<>>
  /\ last.op = "send-otp"
  /\ last.status = 200
  /\ Len(last.arg) = 6
  /\ last.arg # hist.code
  /\ Stored
  /\ otpStore[Watched].otp = hist.code
  /\ Try(last.arg).res.status # 200
  /\ Try(hist.code).res.status = 200

====
